---------------------------- MODULE Spec2Model ----------------------------
(***************************************************************************)
(* A model of onedrive_ai_organizer/onedrive_tree.py: the paginated        *)
(* fetcher graph_get, the tree walker walk_onedrive, the run               *)
(* _run_option_auto_classification, the classifier _categorize_file and    *)
(* the two report renderers.                                               *)
(*                                                                         *)
(* Text is modelled as a sequence of one-character strings, so that        *)
(* lower(), rfind(), split(), count() and the comparison of strings by     *)
(* code point are computed as Python computes them.                        *)
(***************************************************************************)
EXTENDS Integers, Sequences, FiniteSets, TLC

(***************************************************************************)
(* Bounds of the model.                                                    *)
(***************************************************************************)
\* longest file name handed to _categorize_file (besides the spec's examples)
MaxNameLen == 4
\* most pages of a synthetic continuation chain handed to graph_get
MaxPages == 2
\* most items of the drive below its root
MaxNodes == 3
\* most children the server lists on one page of a folder's children
PageSize == 2
\* most entries of a list handed to the renderers on their own
MaxItems == 4

(***************************************************************************)
(* Python values.                                                          *)
(***************************************************************************)
None == "None"

\* None where a text (a name or a path) is expected; no text equals it
Missing == <<"None">>

\* a continuation link that ends `while url:`: None (or "")
NoLink == <<>>

\* no exception so far
NoErr == [kind |-> "none", at |-> "none"]

\* str(None), as an f-string interpolates it
NoneText == <<"N", "o", "n", "e">>

\* The characters a name of the model may hold, in code point order: space,
\* "-", ".", "/", the digits, "A".."Z", "_", "a".."z".
Ascii ==
  <<" ", "-", ".", "/", "0", "1", "2", "3", "4", "5", "6", "7", "8", "9", "A", "B", "C", "D", "E", "F", "G", "H", "I", "J", "K", "L", "M", "N", "O", "P", "Q", "R", "S", "T", "U", "V", "W", "X", "Y", "Z", "_", "a", "b", "c", "d", "e", "f", "g", "h", "i", "j", "k", "l", "m", "n", "o", "p", "q", "r", "s", "t", "u", "v", "w", "x", "y", "z">>

\* the place of c in Ascii: c < d as Python characters iff Ord(c) < Ord(d)
Ord(c) == CHOOSE i \in 1..Len(Ascii) : Ascii[i] = c

IsUpper(c) == Ord("A") <= Ord(c) /\ Ord(c) <= Ord("Z")

\* str.lower() on one character: "A".."Z" move to "a".."z"
LowerChar(c) == IF IsUpper(c) THEN Ascii[Ord(c) + (Ord("a") - Ord("A"))] ELSE c

\* str.lower()
LowerStr(s) == [i \in 1..Len(s) |-> LowerChar(s[i])]

\* s < t for Python strings: lexicographic by code point, a proper prefix first
RECURSIVE StrLess(_, _)
StrLess(s, t) ==
  IF t = <<>> THEN FALSE
  ELSE IF s = <<>> THEN TRUE
  ELSE IF s[1] # t[1] THEN Ord(s[1]) < Ord(t[1])
  ELSE StrLess(Tail(s), Tail(t))

\* s.rfind("."): the last place of a dot, 1-based; 0 when there is none
RFindDot(s) ==
  LET dots == {i \in 1..Len(s) : s[i] = "."}
  IN  IF dots = {} THEN 0 ELSE CHOOSE i \in dots : \A j \in dots : j <= i

\* s.lstrip(".")
RECURSIVE LStripDots(_)
LStripDots(s) ==
  IF s # <<>> /\ s[1] = "." THEN LStripDots(Tail(s)) ELSE s

\* Path(name).suffix for a name that is a single path component (pathlib up
\* to Python 3.13): name[i:] for i = name.rfind(".") when 0 < i < len(name)-1
\* in 0-based terms, and "" otherwise.
Suffix(name) ==
  LET i == RFindDot(name)
  IN  IF 1 < i /\ i < Len(name) THEN SubSeq(name, i, Len(name)) ELSE <<>>

(***************************************************************************)
(* The classifier.                                                         *)
(***************************************************************************)
\* a table in which two categories hold the same extension
OverlappingTable ==
  <<
    [category |-> "Documents", extensions |-> {<<"p","d","f">>, <<"g","z">>}],
    [category |-> "Archives", extensions |-> {<<"z","i","p">>, <<"g","z">>}]
  >>

\* The category table, in the order the dict is written (and scanned).
CATEGORY_EXTENSIONS ==
  <<
    [category |-> "Documents", extensions |-> {<<"p","d","f">>, <<"d","o","c">>, <<"d","o","c","x">>, <<"t","x","t">>, <<"r","t","f">>, <<"o","d","t">>}],
    [category |-> "Spreadsheets", extensions |-> {<<"x","l","s">>, <<"x","l","s","x">>, <<"o","d","s">>, <<"c","s","v">>}],
    [category |-> "Presentations", extensions |-> {<<"p","p","t">>, <<"p","p","t","x">>, <<"k","e","y">>, <<"o","d","p">>}],
    [category |-> "Images", extensions |-> {<<"j","p","g">>, <<"j","p","e","g">>, <<"p","n","g">>, <<"g","i","f">>, <<"b","m","p">>, <<"t","i","f","f">>, <<"s","v","g">>, <<"w","e","b","p">>, <<"h","e","i","c">>}],
    [category |-> "Videos", extensions |-> {<<"m","p","4">>, <<"m","o","v">>, <<"a","v","i">>, <<"m","k","v">>, <<"w","m","v">>}],
    [category |-> "Audio", extensions |-> {<<"m","p","3">>, <<"w","a","v">>, <<"a","a","c">>, <<"f","l","a","c">>, <<"o","g","g">>}],
    [category |-> "Archives", extensions |-> {<<"z","i","p">>, <<"r","a","r">>, <<"7","z">>, <<"t","a","r">>, <<"g","z">>}],
    [category |-> "Data", extensions |-> {<<"j","s","o","n">>, <<"x","m","l">>, <<"y","a","m","l">>, <<"y","m","l">>, <<"p","a","r","q","u","e","t">>}],
    [category |-> "Code", extensions |-> {<<"p","y">>, <<"j","s">>, <<"t","s">>, <<"j","a","v","a">>, <<"c","s">>, <<"c","p","p">>, <<"i","p","y","n","b">>}]
  >>

\* for category, extensions in CATEGORY_EXTENSIONS.items(): the first category
\* from place k on whose set holds ext, "Misc" when the scan runs out
RECURSIVE ScanCategories(_, _)
ScanCategories(ext, k) ==
  IF k > Len(CATEGORY_EXTENSIONS) THEN "Misc"
  ELSE IF ext \in CATEGORY_EXTENSIONS[k].extensions THEN CATEGORY_EXTENSIONS[k].category
  ELSE ScanCategories(ext, k + 1)

\* a classifier that forgets .lower()
CategorizeCaseSensitive(name) ==
  LET ext == LStripDots(Suffix(name))
  IN  IF ext = <<>> THEN "Misc" ELSE ScanCategories(ext, 1)

\* _categorize_file(name)
CategorizeFile(name) ==
  LET ext == LStripDots(LowerStr(Suffix(name)))
  IN  IF ext = <<>> THEN "Misc" ELSE ScanCategories(ext, 1)

(***************************************************************************)
(* Entries and their paths.                                                *)
(***************************************************************************)
\* bool(text): None and "" are false
Truthy(text) == text # Missing /\ text # <<>>

\* a text as an f-string interpolates it: None reads "None"
Text(text) == IF text = Missing THEN NoneText ELSE text

\* full_path = f"{current_path}/{name}" if current_path else name
FullPath(current_path, name) ==
  IF Truthy(current_path) THEN current_path \o <<"/">> \o Text(name) ELSE name

\* the dict walk_onedrive appends for a child (size, last_modified and web_url
\* are copied from the child and read by nothing modelled here)
Entry(item_id, full_path, name, is_folder) ==
  [id |-> item_id, path |-> full_path, name |-> name, is_folder |-> is_folder]

\* path.count("/")
CountSlash(path) == Cardinality({i \in 1..Len(path) : path[i] = "/"})

\* path.split("/")[0]
FirstComponent(path) ==
  LET slashes == {i \in 1..Len(path) : path[i] = "/"}
  IN  IF slashes = {} THEN path
      ELSE SubSeq(path, 1, (CHOOSE i \in slashes : \A j \in slashes : i <= j) - 1)

(***************************************************************************)
(* The report renderers.  A text is the sequence of its pieces: single     *)
(* characters where they come from a name or a path, whole literals where  *)
(* the code writes them, "\n" between lines.                               *)
(***************************************************************************)
\* the "    " one level of depth is indented by counts 4 spaces
IndentWidth == 4
\* paths[:3]
SampleCount == 3

Spaces(n) == [i \in 1..n |-> " "]

\* "\n".join(lines) + "\n"
RECURSIVE JoinLines(_)
JoinLines(lines) ==
  IF lines = <<>> THEN <<>> ELSE Head(lines) \o <<"\n">> \o JoinLines(Tail(lines))

\* lambda item: item["path"].lower()
PathLower(item) == LowerStr(item.path)

\* where sorted() puts x in an already sorted list: behind every element whose
\* key is not greater (sorted() is stable)
RECURSIVE InsertByPath(_, _)
InsertByPath(x, sorted) ==
  IF sorted = <<>> THEN <<x>>
  ELSE IF StrLess(PathLower(x), PathLower(Head(sorted))) THEN <<x>> \o sorted
  ELSE <<Head(sorted)>> \o InsertByPath(x, Tail(sorted))

\* sorted(items, key=lambda item: item["path"].lower())
RECURSIVE SortedByPath(_)
SortedByPath(items) ==
  IF items = <<>> THEN <<>>
  ELSE InsertByPath(items[Len(items)], SortedByPath(SubSeq(items, 1, Len(items) - 1)))

\* the line of one item in the current structure, none for an empty path
OriginalLine(item) ==
  IF ~Truthy(item.path) THEN <<>>
  ELSE LET depth == CountSlash(item.path) + 1
           suffix == IF item.is_folder THEN <<"/">> ELSE <<>>
       IN  <<Spaces(IndentWidth * depth) \o <<"-", " ">> \o Text(item.name) \o suffix>>

RECURSIVE OriginalLines(_)
OriginalLines(sorted_items) ==
  IF sorted_items = <<>> THEN <<>>
  ELSE OriginalLine(Head(sorted_items)) \o OriginalLines(Tail(sorted_items))

\* _format_original_structure(items, root_name): [done, raised, lines], where
\* lines is the text returned; item["path"].lower() raises AttributeError on None
FormatOriginalStructure(items, root_name) ==
  IF \E i \in 1..Len(items) : items[i].path = Missing
  THEN [done |-> TRUE, raised |-> TRUE, lines |-> <<>>]
  ELSE LET sorted_items == SortedByPath(items)
           lines == << <<"Current OneDrive structure">>,
                       <<"Root: ">> \o root_name,
                       <<>>,
                       root_name \o <<"/">> >>
                    \o OriginalLines(sorted_items)
       IN  [done |-> TRUE, raised |-> FALSE, lines |-> JoinLines(lines)]

\* the keys files_by_category can have, as sorted() orders them
SortedCategories ==
  <<"Archives", "Audio", "Code", "Data", "Documents", "Images", "Misc",
    "Presentations", "Spreadsheets", "Videos">>

\* files_by_category[category] of a loop that does not skip the folders
RECURSIVE FilesOfAnyKind(_, _)
FilesOfAnyKind(items, category) ==
  IF items = <<>> THEN <<>>
  ELSE LET item == Head(items)
           name == IF Truthy(item.name) THEN item.name ELSE <<>>
       IN  (IF CategorizeFile(name) = category THEN <<item.path>> ELSE <<>>)
           \o FilesOfAnyKind(Tail(items), category)

\* files_by_category[category] after the loop over items: the paths of the
\* files of that category, in the order of items
RECURSIVE FilesOfCategory(_, _)
FilesOfCategory(items, category) ==
  IF items = <<>> THEN <<>>
  ELSE LET item == Head(items)
           name == IF Truthy(item.name) THEN item.name ELSE <<>>
       IN  (IF ~item.is_folder /\ CategorizeFile(name) = category
            THEN <<item.path>> ELSE <<>>)
           \o FilesOfCategory(Tail(items), category)

\* sorted({item["path"].split("/")[0] for item in items if item.get("path")})
TopLevels(items) ==
  LET names == {FirstComponent(items[i].path) :
                  i \in {j \in 1..Len(items) : Truthy(items[j].path)}}
      Ranked(k) == {n \in names : Cardinality({m \in names : StrLess(m, n)}) = k - 1}
  IN  [k \in 1..Cardinality(names) |-> CHOOSE n \in Ranked(k) : TRUE]

RECURSIVE SampleLines(_)
SampleLines(paths) ==
  IF paths = <<>> THEN <<>>
  ELSE << <<"    <bullet> sample: ">> \o Text(Head(paths)) >> \o SampleLines(Tail(paths))

\* the section of one category: nothing when it has no file
CategorySection(items, category) ==
  LET paths == FilesOfCategory(items, category)
      samples == SubSeq(paths, 1, IF Len(paths) < SampleCount THEN Len(paths) ELSE SampleCount)
  IN  IF paths = <<>> THEN <<>>
      ELSE << <<category, "/  (files: ", ToString(Len(paths)), ")">> >>
           \o SampleLines(samples)
           \o << <<"    <bullet> action: move related files into this folder">> >>

RECURSIVE CategorySections(_, _)
CategorySections(items, k) ==
  IF k > Len(SortedCategories) THEN <<>>
  ELSE CategorySection(items, SortedCategories[k]) \o CategorySections(items, k + 1)

\* _format_recommended_structure(items, root_name): [done, raised, lines]
FormatRecommendedStructure(items, root_name) ==
  LET top_levels == TopLevels(items)
      lines == << <<"Suggested simplified structure">>,
                  <<"Reference root: ">> \o root_name,
                  <<>>,
                  <<"Current top-level folders:">> >>
               \o [k \in 1..Len(top_levels) |-> <<"-", " ">> \o top_levels[k] \o <<"/">>]
               \o << <<>>, <<"Suggested new parent folders with sample files:">> >>
               \o CategorySections(items, 1)
               \o (IF FilesOfCategory(items, "Misc") = <<>>
                   THEN << <<"Misc/  (files: 0)">>,
                           <<"    <bullet> action: catch-all for uncategorized items">> >>
                   ELSE <<>>)
               \o << <<>>,
                     <<"Note: The suggestion is based on file extensions. Review the content and tailor">>,
                     <<"folder names if needed.">> >>
  IN  [done |-> TRUE, raised |-> FALSE, lines |-> JoinLines(lines)]

(***************************************************************************)
(* State.                                                                  *)
(***************************************************************************)
VARIABLES
  mode,           \* what runs: "fetch" (graph_get alone), "run", "classify", "render"
  pc,             \* where the program is
  err,            \* the exception that ended it: [kind, at], or NoErr
  pages,          \* the server: url -> [value, next], the page it serves there
  nodes,          \* the server: item id -> [name, folder], the drive's items
  gg_start,       \* graph_get: the url it was called with
  gg_arg_params,  \* graph_get: the params it was called with
  gg_url,         \* graph_get: url
  gg_params,      \* graph_get: params
  gg_items,       \* graph_get: items
  gg_pages,       \* pages graph_get has read in this call
  tick,           \* flips at every request issued
  lastReq,        \* the last request issued and its answer: [url, params, status]
  slept,          \* the last time.sleep, in tenths of a second (0: none yet)
  odd,            \* a page was read from a response whose status was not 200
  reads,          \* the pages read so far, over all calls of graph_get
  stack,          \* walk_onedrive: stack
  current,        \* walk_onedrive: (current_id, current_path) of the last pop
  popped,         \* the ids popped off the stack so far, in the order of the pops
  results,        \* walk_onedrive: results
  walk_out,       \* what walk_onedrive returned: [returned, entries]
  written,        \* the output artifacts written so far, in order
  cl_name,        \* the name handed to _categorize_file
  cl_category,    \* what _categorize_file returned, or None
  rd_items,       \* the entry list handed to the renderers
  rd_original,    \* what _format_original_structure did: [done, raised, lines]
  rd_recommended  \* what _format_recommended_structure did: [done, raised, lines]

serverVars == <<pages, nodes>>
ggVars == <<gg_start, gg_arg_params, gg_url, gg_params, gg_items, gg_pages>>
reqVars == <<tick, lastReq, slept, odd, reads>>
walkVars == <<stack, current, results, popped>>
classifyVars == <<cl_name, cl_category>>
renderVars == <<rd_items, rd_original, rd_recommended>>
vars ==
  <<mode, pc, err, pages, nodes, gg_start, gg_arg_params, gg_url, gg_params,
    gg_items, gg_pages, tick, lastReq, slept, odd, reads, stack, current,
    popped, results,
    walk_out,
    written, cl_name, cl_category, rd_items, rd_original, rd_recommended>>

(***************************************************************************)
(* The remote API as the program sees it.                                  *)
(***************************************************************************)
\* the statuses the server answers with
Statuses == {200, 204, 304, 404, 429, 503}

\* resp.status_code in {429, 503}
Throttle == {429, 503}

\* requests' Response.raise_for_status(): raises HTTPError for 4xx and 5xx only
RaiseForStatus(status) == 400 <= status /\ status < 600

\* the body of a response that is not a throttle and not an HTTP error: the
\* JSON page of that url on a 200; on any other status the server may send
\* that page, an empty JSON object, or no JSON at all
NotJson == [json |-> FALSE, value |-> <<>>, next |-> NoLink]
EmptyObject == [json |-> TRUE, value |-> <<>>, next |-> NoLink]
Bodies(status, page) ==
  IF status = 200 THEN {page} ELSE {page, EmptyObject, NotJson}

\* the Retry-After header of a throttle response: absent, or its text
Absent == "Absent"
RetryAfterHeaders == {Absent, "0", "3", "2.7", "abc", "inf"}

\* resp.headers.get("Retry-After", "").strip()
RetryAfterRaw(hdr) == IF hdr = Absent THEN "" ELSE hdr

\* float(text), in tenths: a finite number, inf, or ValueError
PyFloat(text) ==
  CASE text = "0" -> [kind |-> "finite", tenths |-> 0]
    [] text = "3" -> [kind |-> "finite", tenths |-> 30]
    [] text = "2.7" -> [kind |-> "finite", tenths |-> 27]
    [] text = "inf" -> [kind |-> "inf", tenths |-> 0]
    [] OTHER -> [kind |-> "ValueError", tenths |-> 0]

\* the seconds requests are paced by after a page: time.sleep(0.1), in tenths
PaceTenths == 1
\* except ValueError: retry_seconds = 2
FallbackRetrySeconds == 2
\* max(1, ...)
MinRetrySeconds == 1

\* retry_seconds of a throttle response: max(1, int(float(raw))), 2 on a
\* ValueError; int(inf) raises OverflowError, which nothing catches
RetrySeconds(hdr) ==
  LET f == PyFloat(RetryAfterRaw(hdr))
      whole == f.tenths \div 10
  IN  CASE f.kind = "ValueError" -> [raises |-> FALSE, seconds |-> FallbackRetrySeconds]
        [] f.kind = "inf" -> [raises |-> TRUE, seconds |-> 0]
        [] OTHER -> [raises |-> FALSE,
                     seconds |-> IF whole > MinRetrySeconds THEN whole ELSE MinRetrySeconds]

(***************************************************************************)
(* graph_get.                                                              *)
(***************************************************************************)
\* an exception of a children fetch caught in walk_onedrive, which returns the
\* entries it has
PropagateCaught(kind, at) ==
  /\ err' = [kind |-> kind, at |-> at]
  /\ IF at = "children"
     THEN pc' = "export" /\ walk_out' = [returned |-> TRUE, entries |-> results]
     ELSE pc' = "raised" /\ UNCHANGED walk_out
  /\ UNCHANGED walkVars

\* an exception nothing catches: it ends the program, and no function on the
\* call stack returns
Propagate(kind, at) ==
  /\ pc' = "raised"
  /\ err' = [kind |-> kind, at |-> at]
  /\ UNCHANGED <<walk_out, walkVars>>

\* which call is in progress, for the error's record
Where == IF mode = "fetch" THEN "fetch" ELSE "children"

\* requests.get(url, headers=headers, params=params) answered with status
Request(url, params, status) ==
  /\ tick' = 1 - tick
  /\ lastReq' = [url |-> url, params |-> params, status |-> status]

\* items.extend(value), written the wrong way round
ExtendPrepend(items, value) == value \o items

\* items.extend(data.get("value", []))
Extend(items, value) == items \o value

\* params = None, forgotten
KeepParams(params) == params

\* params = None  (nextLink already encodes pagination params)
ResetParams(params) == None

\* one turn of the inner loop that ends in `continue`: the request is answered
\* 429 or 503, retry_seconds is computed and slept
GGThrottled(status, hdr) ==
  /\ pc = "gg" /\ gg_url # NoLink
  /\ status \in Throttle
  /\ Request(gg_url, gg_params, status)
  /\ LET r == RetrySeconds(hdr)
     IN  IF r.raises
         THEN Propagate("OverflowError", Where) /\ UNCHANGED slept
         ELSE slept' = 10 * r.seconds /\ UNCHANGED <<pc, err, walk_out, walkVars>>
  /\ UNCHANGED <<mode, serverVars, ggVars, odd, reads, written, classifyVars, renderVars>>

\* the request is answered with a status raise_for_status() raises on
GGHttpError(status) ==
  /\ pc = "gg" /\ gg_url # NoLink
  /\ status \notin Throttle /\ status # 200 /\ RaiseForStatus(status)
  /\ Request(gg_url, gg_params, status)
  /\ Propagate("HTTPError", Where)
  /\ UNCHANGED <<mode, serverVars, ggVars, slept, odd, reads, written, classifyVars,
                 renderVars>>

\* the request is answered with a status that leaves the inner loop by
\* `break`: 200, or one raise_for_status() lets pass; resp.json() is read
GGPage(status) ==
  /\ pc = "gg" /\ gg_url # NoLink
  /\ status \notin Throttle /\ (status = 200 \/ ~RaiseForStatus(status))
  /\ Request(gg_url, gg_params, status)
  /\ \E body \in Bodies(status, pages[gg_url]) :
       IF ~body.json
       THEN /\ Propagate("JSONDecodeError", Where)
            /\ UNCHANGED <<ggVars, slept, odd, reads>>
       ELSE /\ gg_items' = Extend(gg_items, body.value)
            /\ gg_url' = body.next
            /\ gg_params' = ResetParams(gg_params)
            /\ gg_pages' = gg_pages + 1
            /\ slept' = PaceTenths
            /\ odd' = (odd \/ status # 200)
            /\ reads' = reads + 1
            /\ UNCHANGED <<pc, err, walk_out, walkVars, gg_start, gg_arg_params>>
  /\ UNCHANGED <<mode, serverVars, written, classifyVars, renderVars>>

\* `while url:` is left and graph_get returns items to a caller that is not
\* walk_onedrive
FetchReturn ==
  /\ mode = "fetch" /\ pc = "gg" /\ gg_url = NoLink
  /\ pc' = "returned"
  /\ UNCHANGED <<mode, err, serverVars, ggVars, reqVars, walkVars, walk_out,
                 written, classifyVars, renderVars>>

(***************************************************************************)
(* The parts of the state at rest.                                         *)
(***************************************************************************)
NoReq == [url |-> NoLink, params |-> None, status |-> 0]
NotReturned == [returned |-> FALSE, entries |-> <<>>]
NotRendered == [done |-> FALSE, raised |-> FALSE, lines |-> <<>>]

IdleServer == pages = <<>> /\ nodes = <<>>
IdleGG ==
  /\ gg_start = NoLink /\ gg_arg_params = None /\ gg_url = NoLink
  /\ gg_params = None /\ gg_items = <<>> /\ gg_pages = 0
IdleReq == tick = 0 /\ lastReq = NoReq /\ slept = 0 /\ odd = FALSE /\ reads = 0
IdleWalk ==
  /\ stack = <<>> /\ current = <<0, <<>>>> /\ results = <<>> /\ popped = <<>>
  /\ walk_out = NotReturned /\ written = <<>>
IdleClassify == cl_name = <<>> /\ cl_category = None
IdleRender == rd_items = <<>> /\ rd_original = NotRendered /\ rd_recommended = NotRendered

\* the sequences over S of length at most n
SeqsUpTo(S, n) == UNION {[1..k -> S] : k \in 0..n}

(***************************************************************************)
(* graph_get on its own, against a synthetic chain of pages.               *)
(***************************************************************************)
\* the "value" lists the synthetic pages hold: none, one or two records, the
\* same record on two pages or twice on one
PageValues == {<<>>, <<1>>, <<2>>, <<1, 2>>, <<2, 1>>, <<2, 2>>}

\* the url of page k of the listing of item id
Url(id, k) == <<id, k>>

\* the server of a chain of pages: page k links to page k+1, the last to nothing
ChainServer(chain) ==
  [u \in {Url(0, k) : k \in 1..Len(chain)} |->
     [json |-> TRUE,
      value |-> chain[u[2]],
      next |-> IF u[2] < Len(chain) THEN Url(0, u[2] + 1) ELSE NoLink]]

\* the params a caller may pass
CallerParams == {None, "top"}

InitFetch ==
  /\ mode = "fetch" /\ pc = "gg" /\ err = NoErr
  /\ \E chain \in SeqsUpTo(PageValues, MaxPages) :
       /\ chain # <<>>
       /\ pages = ChainServer(chain)
  /\ nodes = <<>>
  /\ gg_start = Url(0, 1) /\ gg_url = gg_start
  /\ gg_arg_params \in CallerParams /\ gg_params = gg_arg_params
  /\ gg_items = <<>> /\ gg_pages = 0
  /\ IdleReq /\ IdleWalk /\ IdleClassify /\ IdleRender

NextFetch ==
  \/ \E status \in Statuses, hdr \in RetryAfterHeaders : GGThrottled(status, hdr)
  \/ \E status \in Statuses : GGHttpError(status)
  \/ \E status \in Statuses : GGPage(status)
  \/ FetchReturn

SpecFetch == InitFetch /\ [][NextFetch]_vars

(***************************************************************************)
(* _categorize_file on its own.                                            *)
(***************************************************************************)
\* the characters of the names tried: an extension of the table in both
\* cases, a dot, a space and a letter of no extension
NameChars == {".", "g", "z", "G", "x", " "}

\* the names the specification gives as examples
ExampleNames ==
  { <<"r","e","p","o","r","t",".","P","D","F">>,
    <<"a","r","c","h","i","v","e",".","t","a","r",".","g","z">>,
    <<"n","o","e","x","t">> }

InitClassify ==
  /\ mode = "classify" /\ pc = "categorize" /\ err = NoErr
  /\ cl_name \in SeqsUpTo(NameChars, MaxNameLen) \cup ExampleNames
  /\ cl_category = None
  /\ IdleServer /\ IdleGG /\ IdleReq /\ IdleWalk /\ IdleRender

\* category = _categorize_file(name)
Categorize ==
  /\ mode = "classify" /\ pc = "categorize"
  /\ cl_category' = CategorizeFile(cl_name)
  /\ pc' = "categorized"
  /\ UNCHANGED <<mode, err, serverVars, ggVars, reqVars, walkVars, walk_out,
                 written, cl_name, renderVars>>

NextClassify == Categorize

SpecClassify == InitClassify /\ [][NextClassify]_vars

(***************************************************************************)
(* The renderers on their own, on entry lists a walk can return.           *)
(***************************************************************************)
\* root.get("name", "root") of the drive served
RootName == <<"r", "o", "o", "t">>

\* a drive to draw entries from: a folder with two files, five files next to
\* it (four of them documents, one without a name), a folder without a name
PoolNodes ==
  << [name |-> <<"A">>, folder |-> TRUE, parent |-> 0],
     [name |-> <<"x", ".", "p", "d", "f">>, folder |-> FALSE, parent |-> 1],
     [name |-> <<"A", ".", "t", "x", "t">>, folder |-> FALSE, parent |-> 0],
     [name |-> <<"b", ".", "p", "d", "f">>, folder |-> FALSE, parent |-> 0],
     [name |-> <<"C", ".", "P", "D", "F">>, folder |-> FALSE, parent |-> 0],
     [name |-> <<>>, folder |-> TRUE, parent |-> 0],
     [name |-> <<"y">>, folder |-> FALSE, parent |-> 1],
     [name |-> Missing, folder |-> FALSE, parent |-> 0],
     [name |-> <<"d", ".", "d", "o", "c">>, folder |-> FALSE, parent |-> 0] >>

\* the entry walk_onedrive builds for item i of that drive
PoolEntry(i) ==
  LET nd == PoolNodes[i]
      current_path == IF nd.parent = 0 THEN <<>>
                      ELSE FullPath(<<>>, PoolNodes[nd.parent].name)
  IN  Entry(i, FullPath(current_path, nd.name), nd.name, nd.folder)

\* ids in an order the walk can discover them in: no item twice, the children
\* of the root first (in any order the server lists them), then those of the
\* folder, which is there when a child of it is
Producible(ids) ==
  /\ \A i, j \in 1..Len(ids) : i # j => ids[i] # ids[j]
  /\ \A i \in 1..Len(ids) :
       PoolNodes[ids[i]].parent # 0 =>
         /\ \E j \in 1..(i - 1) : ids[j] = PoolNodes[ids[i]].parent
         /\ \A j \in (i + 1)..Len(ids) : PoolNodes[ids[j]].parent # 0

InitRender ==
  /\ mode = "render" /\ pc = "render" /\ err = NoErr
  /\ \E ids \in SeqsUpTo(1..Len(PoolNodes), MaxItems) :
       /\ Producible(ids)
       /\ rd_items = [k \in 1..Len(ids) |-> PoolEntry(ids[k])]
  /\ rd_original = NotRendered /\ rd_recommended = NotRendered
  /\ IdleServer /\ IdleGG /\ IdleReq /\ IdleWalk /\ IdleClassify

\* original_text = _format_original_structure(results, root_name)
RenderOriginal ==
  /\ mode = "render" /\ ~rd_original.done
  /\ rd_original' = FormatOriginalStructure(rd_items, RootName)
  /\ UNCHANGED <<mode, pc, err, serverVars, ggVars, reqVars, walkVars, walk_out,
                 written, classifyVars, rd_items, rd_recommended>>

\* recommendation_text = _format_recommended_structure(results, root_name)
RenderRecommended ==
  /\ mode = "render" /\ ~rd_recommended.done
  /\ rd_recommended' = FormatRecommendedStructure(rd_items, RootName)
  /\ UNCHANGED <<mode, pc, err, serverVars, ggVars, reqVars, walkVars, walk_out,
                 written, classifyVars, rd_items, rd_original>>

NextRender == RenderOriginal \/ RenderRecommended

SpecRender == InitRender /\ [][NextRender]_vars

(***************************************************************************)
(* The run: _run_option_auto_classification against a drive.               *)
(***************************************************************************)
\* what an item of the drive may be: a folder, a folder with an empty name, a
\* file, a file whose record has no name
ItemKinds ==
  { [name |-> <<"A">>, folder |-> TRUE],
    [name |-> <<>>, folder |-> TRUE],
    [name |-> <<"x", ".", "p", "d", "f">>, folder |-> FALSE],
    [name |-> Missing, folder |-> FALSE] }

\* the url of GET /me/drive/root
RootUrl == Url(0, 0)

\* a set of item ids as the ascending sequence
Ascending(S) ==
  [k \in 1..Cardinality(S) |-> CHOOSE i \in S : Cardinality({j \in S : j < i}) = k - 1]

\* the children of an item, in the order the server lists them
ChildrenOf(nd, id) == Ascending({c \in DOMAIN nd : c # 0 /\ nd[c].parent = id})

\* the pages the children of an item are served in
PageCount(n) == IF n = 0 THEN 1 ELSE (n + PageSize - 1) \div PageSize

\* the server of a drive: /items/{id}/children for every folder, PageSize
\* children to a page
DriveServer(nd) ==
  LET folders == {id \in DOMAIN nd : nd[id].folder}
      urls == UNION {{Url(id, k) : k \in 1..PageCount(Len(ChildrenOf(nd, id)))} : id \in folders}
  IN  [u \in urls |->
        LET all == ChildrenOf(nd, u[1])
            last == IF u[2] * PageSize < Len(all) THEN u[2] * PageSize ELSE Len(all)
        IN  [json |-> TRUE,
             value |-> SubSeq(all, (u[2] - 1) * PageSize + 1, last),
             next |-> IF u[2] < PageCount(Len(all)) THEN Url(u[1], u[2] + 1) ELSE NoLink]]

\* a drive: item 0 is the root, every other item lies in a folder of smaller
\* id, and no two items of a folder have the same name
IsDrive(nd) ==
  /\ \A i \in DOMAIN nd \ {0} :
       nd[i].parent < i /\ nd[nd[i].parent].folder
  /\ \A i, j \in DOMAIN nd \ {0} :
       (i # j /\ nd[i].parent = nd[j].parent) => nd[i].name # nd[j].name

Init ==
  /\ mode = "run" /\ pc = "start" /\ err = NoErr
  /\ \E n \in 0..MaxNodes :
       \E kind \in [1..n -> ItemKinds], parent \in [1..n -> 0..n] :
         LET nd == [i \in 0..n |->
                      IF i = 0 THEN [name |-> RootName, folder |-> TRUE, parent |-> 0]
                      ELSE [name |-> kind[i].name, folder |-> kind[i].folder,
                            parent |-> parent[i]]]
         IN  /\ IsDrive(nd)
             /\ nodes = nd
             /\ pages = DriveServer(nd)
  /\ IdleGG /\ IdleReq /\ IdleWalk /\ IdleClassify /\ IdleRender

\* access_token = acquire_token_device_code(config): a token, or RuntimeError
AcquireToken(ok) ==
  /\ mode = "run" /\ pc = "start"
  /\ IF ok
     THEN pc' = "walk_root" /\ UNCHANGED <<err, walk_out, walkVars>>
     ELSE Propagate("RuntimeError", "token")
  /\ UNCHANGED <<mode, serverVars, ggVars, reqVars, written, classifyVars, renderVars>>

\* walk_onedrive up to `while stack:`: the root is requested directly, and
\* raise_for_status() is all that looks at the status
WalkRoot(status) ==
  /\ mode = "run" /\ pc = "walk_root"
  /\ Request(RootUrl, None, status)
  /\ IF RaiseForStatus(status)
     THEN Propagate("HTTPError", "root")
     ELSE \E body \in IF status = 200 THEN {"root"} ELSE {"root", "empty", "notjson"} :
            CASE body = "notjson" -> Propagate("JSONDecodeError", "root")
              [] body = "empty" -> Propagate("KeyError", "root")
              [] OTHER -> /\ stack' = << <<0, <<>>>> >>
                          /\ results' = <<>>
                          /\ pc' = "walk"
                          /\ UNCHANGED <<err, walk_out, current, popped>>
  /\ UNCHANGED <<mode, serverVars, ggVars, slept, odd, reads, written, classifyVars,
                 renderVars>>

\* a pop at the wrong end of the list: the oldest pending node
PopFirst(stk) == [item |-> stk[1], rest |-> Tail(stk)]

\* stack.pop(): the last element of the list, and the list without it
Pop(stk) == [item |-> stk[Len(stk)], rest |-> SubSeq(stk, 1, Len(stk) - 1)]

\* current_id, current_path = stack.pop(), and the call of graph_get on the
\* children url of current_id
WalkPop ==
  /\ mode = "run" /\ pc = "walk" /\ stack # <<>>
  /\ current' = Pop(stack).item
  /\ stack' = Pop(stack).rest
  /\ popped' = Append(popped, current'[1])
  /\ gg_start' = Url(current'[1], 1) /\ gg_url' = gg_start'
  /\ gg_arg_params' = None /\ gg_params' = None
  /\ gg_items' = <<>> /\ gg_pages' = 0
  /\ pc' = "gg"
  /\ UNCHANGED <<mode, err, serverVars, reqVars, results, walk_out, written,
                 classifyVars, renderVars>>

\* the push that never happens
PushNever(stk, is_folder, item_id, full_path) == stk

\* a push that is done twice
PushTwice(stk, is_folder, item_id, full_path) ==
  IF is_folder THEN stk \o << <<item_id, full_path>>, <<item_id, full_path>> >> ELSE stk

\* if is_folder: stack.append((item_id, full_path))
PushIfFolder(stk, is_folder, item_id, full_path) ==
  IF is_folder THEN Append(stk, <<item_id, full_path>>) ELSE stk

\* `for child in children:` from the given child on: [results, stack] after it
RECURSIVE ForChildren(_, _, _, _)
ForChildren(children, current_path, res, stk) ==
  IF children = <<>> THEN [results |-> res, stack |-> stk]
  ELSE LET item_id == Head(children)
           name == nodes[item_id].name
           is_folder == nodes[item_id].folder
           full_path == FullPath(current_path, name)
       IN  ForChildren(Tail(children), current_path,
                       Append(res, Entry(item_id, full_path, name, is_folder)),
                       PushIfFolder(stk, is_folder, item_id, full_path))

\* graph_get returns the children to walk_onedrive, which appends an entry
\* for each and pushes the folders
WalkChildren ==
  /\ mode = "run" /\ pc = "gg" /\ gg_url = NoLink
  /\ LET after == ForChildren(gg_items, current[2], results, stack)
     IN  results' = after.results /\ stack' = after.stack
  /\ pc' = "walk"
  /\ UNCHANGED <<mode, err, serverVars, ggVars, reqVars, current, popped, walk_out,
                 written, classifyVars, renderVars>>

\* `while stack:` is left: return root_name, results
WalkReturn ==
  /\ mode = "run" /\ pc = "walk" /\ stack = <<>>
  /\ walk_out' = [returned |-> TRUE, entries |-> results]
  /\ pc' = "export"
  /\ UNCHANGED <<mode, err, serverVars, ggVars, reqVars, walkVars, written,
                 classifyVars, renderVars>>

\* one output file is written, or the write raises OSError
WriteArtifact(at, artifact, then, ok) ==
  /\ mode = "run" /\ pc = at
  /\ IF ok
     THEN /\ written' = Append(written, artifact)
          /\ pc' = then
          /\ UNCHANGED <<err, walk_out, walkVars>>
     ELSE Propagate("OSError", at) /\ UNCHANGED written
  /\ UNCHANGED <<mode, serverVars, ggVars, reqVars, classifyVars, renderVars>>

\* export_tree_to_csv(results, csv_path)
ExportCsv(ok) == WriteArtifact("export", "csv", "render", ok)

\* the two reports are rendered from results; a None path raises
RenderReports ==
  /\ mode = "run" /\ pc = "render"
  /\ IF FormatOriginalStructure(walk_out.entries, RootName).raised
        \/ FormatRecommendedStructure(walk_out.entries, RootName).raised
     THEN Propagate("AttributeError", "render")
     ELSE pc' = "write_original" /\ UNCHANGED <<err, walk_out, walkVars>>
  /\ UNCHANGED <<mode, serverVars, ggVars, reqVars, written, classifyVars, renderVars>>

\* _write_text_file(original_path, original_text)
WriteOriginal(ok) == WriteArtifact("write_original", "original", "write_recommended", ok)

\* _write_text_file(recommended_path, recommendation_text)
WriteRecommended(ok) == WriteArtifact("write_recommended", "recommended", "write_state", ok)

\* _write_state_file(state_path, state_payload)
WriteState(ok) == WriteArtifact("write_state", "state", "finished", ok)

Next ==
  \/ \E ok \in BOOLEAN : AcquireToken(ok)
  \/ \E status \in Statuses : WalkRoot(status)
  \/ WalkPop
  \/ \E status \in Statuses, hdr \in RetryAfterHeaders : GGThrottled(status, hdr)
  \/ \E status \in Statuses : GGHttpError(status)
  \/ \E status \in Statuses : GGPage(status)
  \/ WalkChildren
  \/ WalkReturn
  \/ \E ok \in BOOLEAN : ExportCsv(ok)
  \/ RenderReports
  \/ \E ok \in BOOLEAN : WriteOriginal(ok)
  \/ \E ok \in BOOLEAN : WriteRecommended(ok)
  \/ \E ok \in BOOLEAN : WriteState(ok)

Spec == Init /\ [][Next]_vars

(***************************************************************************)
(* The run against a hierarchy in which an item is listed in a second      *)
(* folder as well (links: the pairs <<folder, item>> of those listings).   *)
(***************************************************************************)
\* the children the server lists for an item: those it is the parent of and
\* those linked into it
DagChildrenOf(nd, links, id) ==
  Ascending({c \in DOMAIN nd : c # 0 /\ (nd[c].parent = id \/ <<id, c>> \in links)})

\* the server of such a hierarchy
DagServer(nd, links) ==
  LET folders == {id \in DOMAIN nd : nd[id].folder}
      urls == UNION {{Url(id, k) : k \in 1..PageCount(Len(DagChildrenOf(nd, links, id)))} :
                       id \in folders}
  IN  [u \in urls |->
        LET all == DagChildrenOf(nd, links, u[1])
            last == IF u[2] * PageSize < Len(all) THEN u[2] * PageSize ELSE Len(all)
        IN  [json |-> TRUE,
             value |-> SubSeq(all, (u[2] - 1) * PageSize + 1, last),
             next |-> IF u[2] < PageCount(Len(all)) THEN Url(u[1], u[2] + 1) ELSE NoLink]]

\* the listings are acyclic: an item is linked into a folder of smaller id that
\* is not its parent and holds no item of its name
IsDag(nd, links) ==
  \A l \in links :
    /\ l[1] < l[2] /\ nd[l[1]].folder /\ nd[l[2]].parent # l[1]
    /\ \A c \in DOMAIN nd \ {0} : nd[c].parent = l[1] => nd[c].name # nd[l[2]].name

InitDag ==
  /\ mode = "run" /\ pc = "start" /\ err = NoErr
  /\ \E n \in 0..MaxNodes :
       \E kind \in [1..n -> ItemKinds], parent \in [1..n -> 0..n] :
         LET nd == [i \in 0..n |->
                      IF i = 0 THEN [name |-> RootName, folder |-> TRUE, parent |-> 0]
                      ELSE [name |-> kind[i].name, folder |-> kind[i].folder,
                            parent |-> parent[i]]]
         IN  /\ IsDrive(nd)
             /\ nodes = nd
             /\ \E links \in {{}} \cup {{<<p, c>>} : p \in 0..n, c \in 1..n} :
                  /\ IsDag(nd, links)
                  /\ pages = DagServer(nd, links)
  /\ IdleGG /\ IdleReq /\ IdleWalk /\ IdleClassify /\ IdleRender

SpecDag == InitDag /\ [][Next]_vars

(***************************************************************************)
(* The claims.                                                             *)
(***************************************************************************)
\* the "value" records of the first n pages of the chain that starts at url
RECURSIVE ChainRecords(_, _)
ChainRecords(url, n) ==
  IF url = NoLink \/ n = 0 THEN <<>>
  ELSE pages[url].value \o ChainRecords(pages[url].next, n - 1)

\* C1: against a finite chain of pages, with throttle responses between them
\* in any number and place, the list graph_get has accumulated is at every
\* moment the concatenation of the "value" lists of the pages read so far, in
\* page order, and the list it returns is the concatenation of all pages of
\* the chain: nothing duplicated, dropped or reordered.
C1_Concatenation ==
  (mode = "fetch" /\ ~odd /\ pc # "raised") =>
     /\ gg_items = ChainRecords(gg_start, gg_pages)
     /\ pc = "returned" => gg_items = ChainRecords(gg_start, Cardinality(DOMAIN pages))

\* graph_get has returned two pages' records although it was throttled on the way
C1_Witness ==
  /\ mode = "fetch" /\ pc = "gg" /\ ~odd
  /\ gg_pages = 1 /\ gg_url # NoLink /\ lastReq.status \in Throttle
  /\ Len(gg_items) = 2 /\ Len(pages[gg_url].value) = 2

\* C2: a 429 or 503 response leaves items and the continuation url (and
\* params) as they were, the request issued after it is the same request,
\* and every request carries the caller's params on the first page and none
\* on later pages.
C2_ThrottleRepeatsRequest ==
  [][ (tick' # tick /\ mode = "fetch") =>
        /\ lastReq'.status \in Throttle =>
             gg_items' = gg_items /\ gg_url' = gg_url /\ gg_params' = gg_params
        /\ lastReq.status \in Throttle =>
             lastReq'.url = lastReq.url /\ lastReq'.params = lastReq.params
        /\ lastReq'.url = gg_url
        /\ lastReq'.params = IF gg_pages = 0 THEN gg_arg_params ELSE None ]_vars

\* a request with the caller's params was throttled and then repeated
C2_Witness ==
  /\ mode = "fetch" /\ pc = "gg" /\ gg_pages = 0 /\ tick = 0
  /\ lastReq.status = 503 /\ lastReq.params = "top" /\ gg_params = "top"
  /\ slept = 10 * FallbackRetrySeconds

\* C3 (as claimed): after a response whose status is neither 429/503 nor 2xx,
\* graph_get has ended in an error.
C3_OtherStatusRaises ==
  (mode = "fetch" /\ lastReq # NoReq /\ lastReq.status \notin Throttle
     /\ ~(200 <= lastReq.status /\ lastReq.status < 300))
    => pc = "raised"

\* C4 (as claimed): no failure of the walk is due to a 429 or 503 response.
C4_ThrottleNeverFails ==
  (mode = "run" /\ pc = "raised" /\ err.at \in {"root", "children"})
    => lastReq.status \notin Throttle

\* the work a walk has left: three for every page not yet read, and the place
\* in the loop; 0 once walk_onedrive has returned or raised
WalkMeasure ==
  LET left == 3 * (Cardinality(DOMAIN pages) - reads)
  IN  CASE pc = "start" -> left + 5
        [] pc = "walk_root" -> left + 4
        [] pc = "walk" -> left + 1
        [] pc = "gg" /\ gg_url = NoLink -> left + 2
        [] pc = "gg" -> left
        [] OTHER -> 0

\* a step of the walk that is not a throttled request is possible
WalkCanAdvance ==
  ENABLED (WalkRoot(200) \/ WalkPop \/ GGPage(200) \/ WalkChildren \/ WalkReturn)

\* C5: on a drive of N items (the root included), walk_onedrive returns N-1
\* entries, one for each item but the root, when it has read every page from
\* a 200 response; and it terminates when every request is answered 200 in
\* the end: no page is read twice, while the walk runs a step other than a
\* throttled request is always possible, every such step lowers the
\* (natural) measure of the work left, and a throttled request leaves the
\* measure as it is.
C5_WalkReturnsAll ==
  /\ [](walk_out.returned /\ ~odd =>
          /\ Len(walk_out.entries) = Cardinality(DOMAIN nodes) - 1
          /\ \A id \in DOMAIN nodes \ {0} :
               Cardinality({k \in 1..Len(walk_out.entries) : walk_out.entries[k].id = id}) = 1)
  /\ [](mode = "run" => reads <= Cardinality(DOMAIN pages))
  /\ [](mode = "run" /\ pc \in {"walk_root", "walk", "gg"} => WalkCanAdvance)
  /\ [][mode = "run" =>
          IF tick' # tick /\ lastReq'.status \in Throttle /\ pc' # "raised"
          THEN WalkMeasure' = WalkMeasure
          ELSE WalkMeasure' < WalkMeasure \/ WalkMeasure = 0]_vars

\* the walk has returned the entries of a drive with a folder inside a folder
C5_Witness ==
  /\ walk_out.returned /\ ~odd
  /\ Len(walk_out.entries) >= 3
  /\ \E id \in DOMAIN nodes : nodes[id].parent # 0 /\ nodes[nodes[id].parent].parent # 0

\* C6 (as claimed): every entry's path is its parent entry's path + "/" + its
\* name, or just its name when its parent is the root.
C6_PrefixConsistent ==
  mode = "run" =>
    \A k \in 1..Len(results) :
      LET e == results[k]
          parent == nodes[e.id].parent
      IN  IF parent = 0 THEN e.path = e.name
          ELSE \E j \in 1..Len(results) :
                 /\ results[j].id = parent
                 /\ e.path = Text(results[j].path) \o <<"/">> \o Text(e.name)

\* C7: when a children fetch has failed, walk_onedrive has returned nothing
\* and no artifact has been written, however many entries it had collected.
C7_FailedFetchWritesNothing ==
  (mode = "run" /\ err.at = "children")
    => pc = "raised" /\ ~walk_out.returned /\ written = <<>>

\* a children fetch failed with an HTTP error after a folder had been expanded
C7_Witness ==
  /\ mode = "run" /\ pc = "raised" /\ err.at = "children" /\ err.kind = "HTTPError"
  /\ lastReq.status = 404 /\ current[1] # 0 /\ Len(results) >= 2

\* C8 (as claimed): when the run has ended, all four artifacts have been
\* written or none.
C8_AllOrNothing ==
  (mode = "run" /\ pc \in {"raised", "finished"})
    => (written = <<>> \/ written = <<"csv", "original", "recommended", "state">>)

\* the orders of the same entries the walk can return: a permutation of items
\* that keeps every child behind its folder and the root's children first
Orderings(items) ==
  LET n == Len(items)
      perms == {f \in [1..n -> 1..n] : \A i, j \in 1..n : i # j => f[i] # f[j]}
  IN  {[k \in 1..n |-> items[f[k]]] :
         f \in {g \in perms : Producible([k \in 1..n |-> items[g[k]].id])}}

\* C9 (as claimed): each report is the same text for every order of the same
\* entries.
C9_OrderIndependent ==
  mode = "render" =>
    \A other \in Orderings(rd_items) :
      /\ rd_original.done => FormatOriginalStructure(other, RootName) = rd_original
      /\ rd_recommended.done => FormatRecommendedStructure(other, RootName) = rd_recommended

\* C10: _categorize_file returns, for every name, the category whose set holds
\* the lower-cased text behind the name's last dot, and "Misc" when the name
\* has no such extension (no dot, a dot only in front or at the end) or no set
\* holds it; it always returns one of the ten categories.
C10_CategoryOfFinalExtension ==
  (mode = "classify" /\ pc = "categorized") =>
    LET dots == {i \in 1..Len(cl_name) : cl_name[i] = "."}
        last == IF dots = {} THEN 0 ELSE CHOOSE i \in dots : \A j \in dots : j <= i
        hasExt == 1 < last /\ last < Len(cl_name)
        ext == LowerStr(SubSeq(cl_name, last + 1, Len(cl_name)))
        homes == {k \in 1..Len(CATEGORY_EXTENSIONS) : ext \in CATEGORY_EXTENSIONS[k].extensions}
    IN  /\ cl_category \in {CATEGORY_EXTENSIONS[k].category : k \in 1..Len(CATEGORY_EXTENSIONS)}
                           \cup {"Misc"}
        /\ IF hasExt /\ homes # {}
           THEN \A k \in homes : cl_category = CATEGORY_EXTENSIONS[k].category
           ELSE cl_category = "Misc"
        /\ cl_name = <<"r","e","p","o","r","t",".","P","D","F">> => cl_category = "Documents"
        /\ cl_name = <<"a","r","c","h","i","v","e",".","t","a","r",".","g","z">>
             => cl_category = "Archives"
        /\ cl_name = <<"n","o","e","x","t">> => cl_category = "Misc"

\* an upper-case extension behind a second dot was classified
C10_Witness ==
  /\ mode = "classify" /\ pc = "categorized"
  /\ cl_name = <<"x", ".", "G", "z">> /\ cl_category = "Archives"

\* the lines of a text: the pieces between its "\n"s, line being the pieces of
\* the line under way
RECURSIVE SplitLines(_, _)
SplitLines(text, line) ==
  IF text = <<>> THEN <<>>
  ELSE IF Head(text) = "\n" THEN <<line>> \o SplitLines(Tail(text), <<>>)
  ELSE SplitLines(Tail(text), Append(line, Head(text)))

\* the lines of the current structure behind its four lines of heading
ItemLines(report) ==
  LET all == SplitLines(report.lines, <<>>)
  IN  SubSeq(all, 5, Len(all))

\* the spaces a line starts with
Indent(line) ==
  LET others == {i \in 1..Len(line) : line[i] # " "}
  IN  IF others = {} THEN Len(line)
      ELSE (CHOOSE i \in others : \A j \in others : i <= j) - 1

\* C11 (as claimed): the current structure has one line for every entry, in
\* case-insensitive path order; the line of an entry is "- " and its name
\* behind 4 * (number of "/" in its path + 1) spaces, with "/" at the end for
\* a folder and for no file; and the line of an entry inside a folder comes
\* behind that folder's line and is indented 4 spaces more.
C11_OneLinePerEntry ==
  (mode = "render" /\ rd_original.done) =>
    /\ ~rd_original.raised
    /\ Len(ItemLines(rd_original)) = Len(rd_items)
    /\ LET lines == ItemLines(rd_original)
           sorted == SortedByPath(rd_items)
           place(id) == CHOOSE k \in 1..Len(sorted) : sorted[k].id = id
       IN  /\ \A k \in 1..(Len(sorted) - 1) :
                ~StrLess(LowerStr(sorted[k + 1].path), LowerStr(sorted[k].path))
           /\ \A k \in 1..Len(sorted) :
                /\ lines[k] = Spaces(4 * (CountSlash(sorted[k].path) + 1))
                                \o <<"-", " ">> \o sorted[k].name
                                \o (IF sorted[k].is_folder THEN <<"/">> ELSE <<>>)
                /\ (lines[k][Len(lines[k])] = "/") <=> sorted[k].is_folder
                /\ PoolNodes[sorted[k].id].parent # 0 =>
                     LET up == place(PoolNodes[sorted[k].id].parent)
                     IN  up < k /\ Indent(lines[k]) = Indent(lines[up]) + 4

\* the lines that open a section of the suggested structure
IsSectionHead(line) ==
  \/ line = <<"Misc/  (files: 0)">>
  \/ Len(line) = 4 /\ line[2] = "/  (files: "

\* the category and the stated file count of such a line
SectionCategory(line) == IF Len(line) = 1 THEN "Misc" ELSE line[1]
SectionCount(line) == IF Len(line) = 1 THEN "0" ELSE line[3]

\* C12: the suggested structure counts files only: every category that has a
\* file has exactly one section, every section states the number of
\* non-folder entries _categorize_file puts into its category and lists at
\* most 3 samples (the first min(3, count) of them), and there is exactly one
\* Misc section, with or without a Misc file.
C12_SectionsCountFiles ==
  (mode = "render" /\ rd_recommended.done) =>
    LET lines == SplitLines(rd_recommended.lines, <<>>)
        heads == {k \in 1..Len(lines) : IsSectionHead(lines[k])}
        files(category) ==
          {i \in 1..Len(rd_items) :
             /\ ~rd_items[i].is_folder
             /\ CategorizeFile(IF Truthy(rd_items[i].name) THEN rd_items[i].name ELSE <<>>)
                  = category}
        samples(k) ==
          {j \in (k + 1)..Len(lines) :
             /\ lines[j] # <<>> /\ lines[j][1] = "    <bullet> sample: "
             /\ \A h \in heads : ~(k < h /\ h < j)}
        least(a, b) == IF a < b THEN a ELSE b
    IN  /\ ~rd_recommended.raised
        /\ \A category \in {SortedCategories[c] : c \in 1..Len(SortedCategories)} :
             files(category) # {} =>
               Cardinality({k \in heads : SectionCategory(lines[k]) = category}) = 1
        /\ \A k \in heads :
             /\ SectionCount(lines[k]) = ToString(Cardinality(files(SectionCategory(lines[k]))))
             /\ Cardinality(samples(k)) = least(3, Cardinality(files(SectionCategory(lines[k]))))
        /\ Cardinality({k \in heads : SectionCategory(lines[k]) = "Misc"}) = 1

\* four documents and nothing else were rendered: a section of more than three
\* files, and no Misc file
C12_Witness ==
  /\ mode = "render" /\ rd_recommended.done /\ Len(rd_items) = 4
  /\ \A k \in 1..Len(rd_items) :
       ~rd_items[k].is_folder /\ Truthy(rd_items[k].name)
       /\ CategorizeFile(rd_items[k].name) = "Documents"

\* C13 (as claimed): in a walk of an acyclic hierarchy, no item is pushed onto
\* the stack more than once (a push goes with the entry appended for the
\* folder) and none is popped and expanded more than once.
C13_ExpandedAtMostOnce ==
  mode = "run" =>
    \A id \in DOMAIN nodes :
      /\ Cardinality({k \in 1..Len(results) : results[k].id = id /\ results[k].is_folder}) <= 1
      /\ Cardinality({k \in 1..Len(popped) : popped[k] = id}) <= 1

\* how often an id is on the stack, and how often it has been popped
TimesPending(id) == Cardinality({i \in 1..Len(stack) : stack[i][1] = id})
TimesExpanded(id) == Cardinality({i \in 1..Len(popped) : popped[i] = id})

ClaimedWaitTenths(hdr) ==
  LET f == PyFloat(RetryAfterRaw(hdr))
  IN  IF f.kind = "finite" THEN f.tenths ELSE 10 * 2

\* C15 (as claimed): on a 429 or 503 response graph_get raises nothing and goes
\* on to repeat the request, after a sleep of the seconds the Retry-After
\* header holds when that is a number (0 included) and of 2 seconds when the
\* header is absent or not a number.
C15_WaitEqualsHint ==
  [][ \A status \in Throttle, hdr \in RetryAfterHeaders :
        (mode = "fetch" /\ GGThrottled(status, hdr)) =>
          /\ pc' = "gg" /\ gg_url' = gg_url /\ gg_params' = gg_params
          /\ PyFloat(RetryAfterRaw(hdr)).kind # "inf" => slept' = ClaimedWaitTenths(hdr) ]_vars

\* the lines listed under "Current top-level folders:", up to the empty line
TopLevelListing(report) ==
  LET lines == SplitLines(report.lines, <<>>)
      stop == CHOOSE j \in 5..Len(lines) :
                lines[j] = <<>> /\ \A i \in 5..(j - 1) : lines[i] # <<>>
  IN  SubSeq(lines, 5, stop - 1)

\* C16 (as claimed): the list of current top-level folders holds the name of
\* every entry that is a folder directly under the root, once, and nothing
\* else: no file and no entry from deeper down.
C16_TopLevelFoldersOnly ==
  (mode = "render" /\ rd_recommended.done) =>
    LET listed == TopLevelListing(rd_recommended)
        folders == {rd_items[k].name :
                      k \in {i \in 1..Len(rd_items) :
                               rd_items[i].is_folder /\ CountSlash(rd_items[i].path) = 0}}
    IN  /\ \A k \in 1..Len(listed) :
             \E name \in folders : listed[k] = <<"-", " ">> \o name \o <<"/">>
        /\ \A name \in folders :
             Cardinality({k \in 1..Len(listed) :
                            listed[k] = <<"-", " ">> \o name \o <<"/">>}) = 1

\* item d lies below item f in the drive, at any depth
RECURSIVE IsBelow(_, _)
IsBelow(d, f) == d # 0 /\ (nodes[d].parent = f \/ IsBelow(nodes[d].parent, f))

\* where an item was discovered: the place of its entry in results
Discovered(id) == CHOOSE k \in 1..Len(results) : results[k].id = id

\* C17: the walk pops one pending node at a time, the last of the stack, and
\* the stack holds the pending nodes in the order of their discovery, so
\* that the node popped is the most recently discovered one still pending;
\* and so, for a folder F popped while a folder G was pending (G was
\* discovered earlier and is popped later), no folder below F is popped
\* after G.
C17_MostRecentFirst ==
  /\ [][ (mode = "run" /\ popped' # popped) =>
          /\ stack # <<>>
          /\ current' = stack[Len(stack)]
          /\ popped' = Append(popped, stack[Len(stack)][1])
          /\ stack' = SubSeq(stack, 1, Len(stack) - 1) ]_vars
  /\ [](mode = "run" =>
          \A i, j \in 1..Len(stack) :
            (i < j /\ stack[i][1] # 0) => Discovered(stack[i][1]) < Discovered(stack[j][1]))
  /\ [](mode = "run" =>
          \A i, k, m \in 1..Len(popped) :
            ( /\ i < k /\ popped[k] # 0
              /\ \E h \in 1..(i - 1) : popped[h] = nodes[popped[k]].parent
              /\ IsBelow(popped[m], popped[i]) )
            => m < k)

\* of two folders of the root the later listed was popped first, and the
\* folder inside it was popped before the other
C17_Witness ==
  /\ mode = "run" /\ popped = <<0, 2, 3, 1>>
  /\ nodes[1].parent = 0 /\ nodes[2].parent = 0 /\ nodes[3].parent = 2

\* C18 (as claimed): graph_get retries a throttled request without a cap:
\* while a page is to be requested, another 429 or 503 response is always
\* possible, and on such a response graph_get neither returns nor raises
\* but stays at the same request, whatever the number of throttle responses
\* before it; and it returns only when the chain has ended, the last response
\* being no throttle response (and every page read, when each was read from
\* a 200 response).
C18_NoRetryCap ==
  /\ [][ (mode = "fetch" /\ tick' # tick /\ lastReq'.status \in Throttle) =>
          /\ pc' = "gg" /\ err' = NoErr
          /\ gg_url' = gg_url /\ gg_params' = gg_params /\ gg_items' = gg_items ]_vars
  /\ []((mode = "fetch" /\ pc = "gg" /\ gg_url # NoLink) =>
          ENABLED (GGThrottled(429, Absent) \/ GGThrottled(503, Absent)))
  /\ []((mode = "fetch" /\ pc = "returned") =>
          /\ gg_url = NoLink /\ lastReq.status \notin Throttle
          /\ ~odd => gg_pages = Cardinality(DOMAIN pages))

\* an entry that gets a line in the current structure
HasLine(item) == Truthy(item.path)

\* C19 (as claimed): in the current structure, for every entry that lies in a
\* folder other than the root, the nearest line above its own that is
\* indented one level (4 spaces) less is the line of that folder.
C19_FaithfulTree ==
  (mode = "render" /\ rd_original.done /\ ~rd_original.raised) =>
    LET lines == ItemLines(rd_original)
        lined == SelectSeq(SortedByPath(rd_items), HasLine)
    IN  /\ Len(lines) = Len(lined)
        /\ \A k \in 1..Len(lined) :
             PoolNodes[lined[k].id].parent # 0 =>
               LET ups == {j \in 1..(k - 1) : Indent(lines[j]) = Indent(lines[k]) - 4}
               IN  /\ ups # {}
                   /\ lined[CHOOSE j \in ups : \A i \in ups : i <= j].id
                        = PoolNodes[lined[k].id].parent

\* the scan of the category table from its end: the last category from place
\* k down whose set holds ext, "Misc" when there is none
RECURSIVE ScanBackwards(_, _)
ScanBackwards(ext, k) ==
  IF k < 1 THEN "Misc"
  ELSE IF ext \in CATEGORY_EXTENSIONS[k].extensions THEN CATEGORY_EXTENSIONS[k].category
  ELSE ScanBackwards(ext, k - 1)

\* C20: no two extension sets of the category table have an extension in
\* common, so that the extension of a name is in at most one of them and
\* _categorize_file returns what a scan of the table in the opposite order
\* returns.
C20_DisjointTable ==
  mode = "classify" =>
    /\ \A i, j \in 1..Len(CATEGORY_EXTENSIONS) :
         i # j => CATEGORY_EXTENSIONS[i].extensions \cap CATEGORY_EXTENSIONS[j].extensions = {}
    /\ pc = "categorized" =>
         LET ext == LStripDots(LowerStr(Suffix(cl_name)))
         IN  /\ Cardinality({k \in 1..Len(CATEGORY_EXTENSIONS) :
                                ext \in CATEGORY_EXTENSIONS[k].extensions}) <= 1
             /\ cl_category = IF ext = <<>> THEN "Misc"
                              ELSE ScanBackwards(ext, Len(CATEGORY_EXTENSIONS))

\* a name whose extension is in the table was classified
C20_Witness ==
  /\ mode = "classify" /\ pc = "categorized"
  /\ cl_name = <<"g", ".", "g", "z">> /\ cl_category = "Archives"

=============================================================================
